---- MODULE Spec2Model ----
(***************************************************************************)
(* Chunked upload session engine of WarpFS (server side, Express/Node).    *)
(*                                                                         *)
(* Strings are sequences of one-character strings, so that path.join,      *)
(* String.startsWith, path.extname, parseInt and padStart are computed the *)
(* way Node computes them.  File contents are sequences of bytes.          *)
(* A request handler is an operator from the server state and the request *)
(* to the response and the next server state; it runs to completion in one *)
(* step (requests that do not overlap in time).  Time is counted in        *)
(* periods of the stale-session sweep (ten minutes).                       *)
(***************************************************************************)
EXTENDS Integers, Sequences, FiniteSets, TLC

\* ------------------------------------------------------------------ bounds
MaxChunks == 2      \* largest totalChunks an init request declares
MaxSteps  == 4      \* requests and sweeps that change the server state

\* ------------------------------------------------------- strings (Node/JS)
Digits == <<"0", "1", "2", "3", "4", "5", "6", "7", "8", "9">>

IsDigit(c) == \E d \in 1..10 : Digits[d] = c

DigitVal(c) == (CHOOSE d \in 1..10 : Digits[d] = c) - 1

\* parseInt yields NaN for a string with no leading digit.  The request
\* fields of the model carry no sign, so no parsed integer is negative and
\* -1 is free to stand for NaN (a JS Set holds at most one NaN).
NaN == -1

RECURSIVE ParseDigits(_, _)
ParseDigits(s, acc) ==
    IF s = <<>> \/ ~IsDigit(Head(s)) THEN acc
    ELSE ParseDigits(Tail(s), acc * 10 + DigitVal(Head(s)))

ParseInt(s) ==
    IF s = <<>> \/ ~IsDigit(Head(s)) THEN NaN ELSE ParseDigits(s, 0)

RECURSIVE DecStr(_)
DecStr(n) ==
    IF n < 10 THEN <<Digits[n + 1]>>
    ELSE DecStr(n \div 10) \o <<Digits[(n % 10) + 1]>>

NumToString(n) == IF n = NaN THEN <<"N", "a", "N">> ELSE DecStr(n)

PadStart(s, n, c) ==
    IF Len(s) >= n THEN s ELSE [i \in 1..(n - Len(s)) |-> c] \o s

StartsWith(s, p) == Len(p) <= Len(s) /\ SubSeq(s, 1, Len(p)) = p

EndsWith(s, p) ==
    Len(p) <= Len(s) /\ SubSeq(s, Len(s) - Len(p) + 1, Len(s)) = p

\* ------------------------------------------------------ path (node:path)
RECURSIVE SplitSlash(_, _)
\* the segments of s between "/" characters; cur is the segment being read
SplitSlash(s, cur) ==
    IF s = <<>> THEN <<cur>>
    ELSE IF Head(s) = "/" THEN <<cur>> \o SplitSlash(Tail(s), <<>>)
    ELSE SplitSlash(Tail(s), Append(cur, Head(s)))

RECURSIVE NormalizeSegs(_, _, _)
\* normalizeString: drop "" and ".", resolve ".." against the stack
NormalizeSegs(segs, stack, absolute) ==
    IF segs = <<>> THEN stack
    ELSE LET h == Head(segs)
             t == Tail(segs)
         IN  IF h = <<>> \/ h = <<".">> THEN NormalizeSegs(t, stack, absolute)
             ELSE IF h = <<".", ".">>
                  THEN IF stack # <<>> /\ stack[Len(stack)] # <<".", ".">>
                       THEN NormalizeSegs(t, SubSeq(stack, 1, Len(stack) - 1), absolute)
                       ELSE IF absolute THEN NormalizeSegs(t, stack, absolute)
                       ELSE NormalizeSegs(t, Append(stack, h), absolute)
             ELSE NormalizeSegs(t, Append(stack, h), absolute)

RECURSIVE JoinSlash(_)
JoinSlash(segs) ==
    IF segs = <<>> THEN <<>>
    ELSE IF Len(segs) = 1 THEN segs[1]
    ELSE segs[1] \o <<"/">> \o JoinSlash(Tail(segs))

\* a path with no empty segment and no segment that starts with "." is
\* already normal
IsNormal(p) ==
    /\ p # <<>>
    /\ p[1] # "."
    /\ \A i \in 1..(Len(p) - 1) : p[i] = "/" => (p[i + 1] # "/" /\ p[i + 1] # ".")

\* path.normalize(p)
Normalize(p) ==
    IF p = <<>> THEN <<".">>
    ELSE IF IsNormal(p) THEN p
    ELSE LET absolute == Head(p) = "/"
             trailing == p[Len(p)] = "/"
             body     == JoinSlash(NormalizeSegs(SplitSlash(p, <<>>), <<>>, absolute))
             body2    == IF body = <<>> /\ ~absolute THEN <<".">> ELSE body
             body3    == IF body2 # <<>> /\ trailing THEN body2 \o <<"/">> ELSE body2
         IN  IF absolute THEN <<"/">> \o body3 ELSE body3

RECURSIVE JoinArgs(_)
JoinArgs(args) ==
    IF args = <<>> THEN <<>>
    ELSE IF Head(args) = <<>> THEN JoinArgs(Tail(args))
    ELSE LET rest == JoinArgs(Tail(args))
         IN  IF rest = <<>> THEN Head(args) ELSE Head(args) \o <<"/">> \o rest

\* path.join(...args)
PathJoin(args) == Normalize(JoinArgs(args))

RECURSIVE StripSlashes(_)
StripSlashes(p) ==
    IF Len(p) > 1 /\ p[Len(p)] = "/" THEN StripSlashes(SubSeq(p, 1, Len(p) - 1))
    ELSE p

LastSeg(p) ==
    LET segs == SplitSlash(StripSlashes(p), <<>>) IN segs[Len(segs)]

\* path.basename(p, ext)
BaseName(p, ext) ==
    LET b == LastSeg(p)
    IN  IF ext # <<>> /\ b = ext THEN <<>>
        ELSE IF ext # <<>> /\ EndsWith(b, ext) THEN SubSeq(b, 1, Len(b) - Len(ext))
        ELSE b

\* path.extname(p)
ExtName(p) ==
    LET b    == LastSeg(p)
        dots == {i \in 1..Len(b) : b[i] = "."}
    IN  IF dots = {} THEN <<>>
        ELSE LET k == CHOOSE i \in dots : \A j \in dots : j <= i
             IN  IF k = 1 \/ b = <<".", ".">> THEN <<>> ELSE SubSeq(b, k, Len(b))

\* path.dirname(p)
DirName(p) ==
    LET q      == StripSlashes(p)
        slashs == {i \in 1..Len(q) : q[i] = "/"}
    IN  IF slashs = {} THEN <<".">>
        ELSE LET k == CHOOSE i \in slashs : \A j \in slashs : j <= i
             IN  IF k = 1 THEN <<"/">> ELSE StripSlashes(SubSeq(q, 1, k - 1))

\* ------------------------------------------------------------ input sets
Dirname == <<"/", "s">>                       \* __dirname of the server

Users == {<<"a">>, <<"a", "b">>}              \* authenticated account ids

SessionIds == {<<"x">>, <<"y">>}

FileNames == {<<"d", ".", "t">>}

RequestedPaths == {<<"/">>}

Payloads == {<<"p">>, <<"q">>}                \* bytes of one chunk or file

\* a request field that is absent (undefined) rather than a string
Undefined == <<"undefined">>

\* chunkIndex as sent in the multipart form: a decimal string or junk
ChunkIndexFields == {DecStr(i) : i \in 0..(MaxChunks - 1)} \cup {<<"z">>}

\* the size of a full chunk as the client slices and declares it (5 MiB),
\* counted in bytes of the model; the server never compares the length of
\* a part with it
CHUNK_SIZE == 3

\* the sweep period is the unit of time: STALE_TIME is three periods
STALE_TIME == 3

\* ---------------------------------------------------------------- state
VARIABLES
    chunkSessions,   \* Map sessionId -> session
    files,           \* the disk: path of a regular file -> its bytes
    dirs,            \* the disk: paths of the directories
    now,             \* Date.now(), in sweep periods
    steps,           \* state-changing requests and sweeps so far
    client,          \* the browser client running uploadFileChunked
    inflight         \* requests the server has begun and not yet answered

vars == <<chunkSessions, files, dirs, now, steps, client, inflight>>

\* the server state as one value
St == [sessions |-> chunkSessions, files |-> files, dirs |-> dirs, now |-> now]

\* ----------------------------------------------------------- file system
Under(p, d) == p = d \/ StartsWith(p, d \o <<"/">>)

Exists(fs, ds, p) == StripSlashes(p) \in DOMAIN fs \/ StripSlashes(p) \in ds

\* the directory p and all its ancestors
Ancestors(p) ==
    LET q == StripSlashes(p)
    IN  {SubSeq(q, 1, k) : k \in {i \in 1..Len(q) : i = Len(q) \/ q[i + 1] = "/"}}

\* fs.mkdir(p, {recursive: true}) succeeds unless a regular file is in the way
CanMkdir(fs, p) == Ancestors(p) \cap DOMAIN fs = {}

Mkdirp(ds, p) == ds \cup Ancestors(p)

\* fs.rm(p, {recursive: true, force: true})
RmFiles(fs, p) ==
    [f \in {g \in DOMAIN fs : ~Under(g, StripSlashes(p))} |-> fs[f]]

RmDirs(ds, p) == {d \in ds : ~Under(d, StripSlashes(p))}

WriteFile(fs, p, data) ==
    [f \in DOMAIN fs \cup {p} |-> IF f = p THEN data ELSE fs[f]]

\* a regular file can be created or replaced at p
CanWrite(fs, ds, p) == DirName(p) \in ds /\ p \notin ds

\* fs.rename(from, to) of a regular file
CanRename(fs, ds, from, to) == from \in DOMAIN fs /\ CanWrite(fs, ds, to)

\* a rename that does not replace a file that is already at the target
RenameKeepsExisting(fs, from, to) ==
    [f \in (DOMAIN fs \ {from}) \cup {to} |->
        IF f = to /\ to \notin DOMAIN fs THEN fs[from] ELSE fs[f]]

Rename(fs, from, to) ==
    [f \in (DOMAIN fs \ {from}) \cup {to} |-> IF f = to THEN fs[from] ELSE fs[f]]

TempRoot == PathJoin(<<Dirname, <<"t", "e", "m", "p">>>>)

\* cleanupTempDirectory(): removes the whole temp tree
CleanupFiles(fs) == RmFiles(fs, TempRoot)

CleanupDirs(ds) == RmDirs(ds, TempRoot)

GetUserDirectory(userId) == PathJoin(<<Dirname, userId>>)

\* regular files outside the temp tree
UserFiles(fs) == {f \in DOMAIN fs : ~Under(f, TempRoot)}

\* ------------------------------------------------------------- responses
NoData == [sessionId |-> <<>>, chunkIndex |-> 0, received |-> 0, expected |-> 0,
           name |-> <<>>, path |-> <<>>, size |-> 0]

\* a response that leaves the server state st as it is
Reply(st, status, message, data) ==
    [status |-> status, message |-> message, data |-> data, st |-> st]

\* the server after start-up
ServerInit ==
    /\ chunkSessions = <<>>
    /\ files = <<>>
    /\ dirs = {<<"/">>, Dirname}
    /\ now = 0
    /\ steps = 0

\* no client is uploading
NoClient == [pc |-> "idle"]

Init ==
    /\ ServerInit
    /\ client = NoClient
    /\ inflight = <<>>

\* the step of a handler whose outcome is out; a request that changes
\* nothing on the server leaves the state as it is
Becomes(out) ==
    \E o \in {out} :
        IF o.st = St THEN UNCHANGED vars
        ELSE /\ steps < MaxSteps
             /\ steps' = steps + 1
             /\ chunkSessions' = o.st.sessions
             /\ files' = o.st.files
             /\ dirs' = o.st.dirs
             /\ now' = o.st.now
             /\ UNCHANGED <<client, inflight>>

\* --------------------------------------------- POST /upload-chunked/init
InitHandler(st, userId, fileName, fileSize, totalChunks, chunkSize, sessionId, requestedPath) ==
    LET userDir   == GetUserDirectory(userId)
        targetDir == PathJoin(<<userDir, requestedPath>>)
        tempDir   == PathJoin(<<Dirname, <<"t", "e", "m", "p">>, sessionId>>)
        session   == [sessionId |-> sessionId, fileName |-> fileName,
                      fileSize |-> fileSize, totalChunks |-> totalChunks,
                      chunkSize |-> chunkSize, userId |-> userId,
                      targetDir |-> targetDir, tempDir |-> tempDir,
                      receivedChunks |-> {}, lastUpdate |-> st.now]
    IN  IF fileName = <<>> \/ fileSize = 0 \/ totalChunks = 0 \/ sessionId = <<>>
        THEN Reply(st, 400, "Missing required fields for chunked upload", NoData)
        ELSE IF ~StartsWith(targetDir, userDir)
        THEN Reply(st, 403, "Access denied", NoData)
        ELSE IF ~CanMkdir(st.files, targetDir)
        THEN Reply(st, 500, "Failed to initialize chunked upload", NoData)
        ELSE IF ~CanMkdir(st.files, tempDir)
        THEN Reply([st EXCEPT !.dirs = Mkdirp(st.dirs, targetDir)],
                   500, "Failed to initialize chunked upload", NoData)
        ELSE Reply([st EXCEPT
                        !.dirs = Mkdirp(Mkdirp(st.dirs, targetDir), tempDir),
                        !.sessions =
                            [s \in DOMAIN st.sessions \cup {sessionId} |->
                                IF s = sessionId THEN session ELSE st.sessions[s]]],
                   200, "Chunked upload session initialized",
                   [NoData EXCEPT !.sessionId = sessionId])

InitUpload(userId, fileName, fileSize, totalChunks, chunkSize, sessionId, requestedPath) ==
    Becomes(InitHandler(St, userId, fileName, fileSize, totalChunks, chunkSize,
                        sessionId, requestedPath))

\* -------------------------------------------- POST /upload-chunked/chunk
\* chunkUpload (multer): the uploaded part is stored under temp/chunks with
\* a fresh name before the handler runs
ChunksDir == PathJoin(<<Dirname, <<"t", "e", "m", "p">>, <<"c", "h", "u", "n", "k", "s">>>>)

TempName(k) == <<"t", "e", "m", "p", "_">> \o DecStr(k)

\* the multer temp files on disk
TempFiles(fs) == {f \in DOMAIN fs : Under(f, ChunksDir)}

FreshTemp(fs) ==
    LET free == {k \in 1..(Cardinality(TempFiles(fs)) + 1) :
                    PathJoin(<<ChunksDir, TempName(k)>>) \notin DOMAIN fs}
    IN  PathJoin(<<ChunksDir, TempName(CHOOSE k \in free : \A j \in free : k <= j)>>)

ChunkFileName(i) ==
    <<"c", "h", "u", "n", "k", "_">> \o PadStart(NumToString(i), 6, "0")

ChunkPath(tempDir, i) == PathJoin(<<tempDir, ChunkFileName(i)>>)

\* a chunk handler that leaves lastUpdate as it is
ChunkHandlerNoRefresh(st, userId, sessionId, chunkIndex, chunk) ==
    LET hasFile == chunk # Undefined
        tmpPath == FreshTemp(st.files)
        st1     == IF hasFile
                   THEN [st EXCEPT !.dirs = Mkdirp(st.dirs, ChunksDir),
                                   !.files = WriteFile(st.files, tmpPath, chunk)]
                   ELSE st
    IN  IF sessionId = <<>> \/ chunkIndex = Undefined \/ ~hasFile
        THEN Reply(st1, 400, "Missing chunk data", NoData)
        ELSE IF sessionId \notin DOMAIN st.sessions
        THEN Reply(st1, 404, "Upload session not found", NoData)
        ELSE IF st.sessions[sessionId].userId # userId
        THEN Reply(st1, 403, "Access denied", NoData)
        ELSE LET session       == st.sessions[sessionId]
                 chunkIndexNum == ParseInt(chunkIndex)
                 chunkPath     == ChunkPath(session.tempDir, chunkIndexNum)
                 received      == session.receivedChunks \cup {chunkIndexNum}
             IN  IF ~CanRename(st1.files, st1.dirs, tmpPath, chunkPath)
                 THEN Reply(st1, 500, "Failed to upload chunk", NoData)
                 ELSE Reply([st1 EXCEPT
                                !.files = Rename(st1.files, tmpPath, chunkPath),
                                !.sessions[sessionId].receivedChunks = received],
                            200, "Chunk uploaded successfully",
                            [NoData EXCEPT !.chunkIndex = chunkIndexNum,
                                           !.received = Cardinality(received),
                                           !.expected = session.totalChunks])

ChunkHandler(st, userId, sessionId, chunkIndex, chunk) ==
    LET hasFile == chunk # Undefined
        tmpPath == FreshTemp(st.files)
        st1     == IF hasFile
                   THEN [st EXCEPT !.dirs = Mkdirp(st.dirs, ChunksDir),
                                   !.files = WriteFile(st.files, tmpPath, chunk)]
                   ELSE st
    IN  IF sessionId = <<>> \/ chunkIndex = Undefined \/ ~hasFile
        THEN Reply(st1, 400, "Missing chunk data", NoData)
        ELSE IF sessionId \notin DOMAIN st.sessions
        THEN Reply(st1, 404, "Upload session not found", NoData)
        ELSE IF st.sessions[sessionId].userId # userId
        THEN Reply(st1, 403, "Access denied", NoData)
        ELSE LET session       == st.sessions[sessionId]
                 chunkIndexNum == ParseInt(chunkIndex)
                 chunkPath     == ChunkPath(session.tempDir, chunkIndexNum)
                 received      == session.receivedChunks \cup {chunkIndexNum}
             IN  IF ~CanRename(st1.files, st1.dirs, tmpPath, chunkPath)
                 THEN Reply(st1, 500, "Failed to upload chunk", NoData)
                 ELSE Reply([st1 EXCEPT
                                !.files = Rename(st1.files, tmpPath, chunkPath),
                                !.sessions[sessionId].receivedChunks = received,
                                !.sessions[sessionId].lastUpdate = st.now],
                            200, "Chunk uploaded successfully",
                            [NoData EXCEPT !.chunkIndex = chunkIndexNum,
                                           !.received = Cardinality(received),
                                           !.expected = session.totalChunks])

UploadChunk(userId, sessionId, chunkIndex, chunk) ==
    Becomes(ChunkHandler(St, userId, sessionId, chunkIndex, chunk))

\* ----------------------------------------- POST /upload-chunked/finalize
\* "name (counter).ext"
ConflictName(fileName, counter) ==
    LET ext            == ExtName(fileName)
        nameWithoutExt == BaseName(fileName, ext)
    IN  nameWithoutExt \o <<" ", "(">> \o DecStr(counter) \o <<")">> \o ext

RECURSIVE ProbeFree(_, _, _, _, _, _)
\* the conflict loop: the first of finalPath, "name (1)", "name (2)", ...
\* that does not exist
ProbeFree(fs, ds, dir, fileName, finalPath, counter) ==
    IF Exists(fs, ds, finalPath)
    THEN ProbeFree(fs, ds, dir, fileName,
                   PathJoin(<<dir, ConflictName(fileName, counter)>>), counter + 1)
    ELSE finalPath

RECURSIVE CombineNewestFirst(_, _, _, _, _, _)
\* a combine loop that puts each chunk in front of what it has written
CombineNewestFirst(fs, tempDir, totalChunks, i, failAt, acc) ==
    IF i >= totalChunks THEN [ok |-> TRUE, data |-> acc]
    ELSE IF ChunkPath(tempDir, i) \notin DOMAIN fs \/ i = failAt
    THEN [ok |-> FALSE, data |-> acc]
    ELSE CombineNewestFirst(fs, tempDir, totalChunks, i + 1, failAt,
                            fs[ChunkPath(tempDir, i)] \o acc)

RECURSIVE Combine(_, _, _, _, _, _)
\* the combine loop from index i on: acc is what the write stream holds;
\* failAt is the index at which the disk fails (none when >= totalChunks)
Combine(fs, tempDir, totalChunks, i, failAt, acc) ==
    IF i >= totalChunks THEN [ok |-> TRUE, data |-> acc]
    ELSE IF ChunkPath(tempDir, i) \notin DOMAIN fs \/ i = failAt
    THEN [ok |-> FALSE, data |-> acc]
    ELSE Combine(fs, tempDir, totalChunks, i + 1, failAt,
                 acc \o fs[ChunkPath(tempDir, i)])

\* a delete that leaves the registry as it is
WithoutNothing(sessions, sessionId) == sessions

Without(sessions, sessionId) ==
    [s \in DOMAIN sessions \ {sessionId} |-> sessions[s]]

FinalizeHandler(st, userId, sessionId, fileName, totalChunks, failAt) ==
    IF sessionId = <<>> \/ fileName = <<>> \/ totalChunks = 0
    THEN Reply(st, 400, "Missing finalization data", NoData)
    ELSE IF sessionId \notin DOMAIN st.sessions
    THEN Reply(st, 404, "Upload session not found", NoData)
    ELSE IF st.sessions[sessionId].userId # userId
    THEN Reply(st, 403, "Access denied", NoData)
    ELSE IF Cardinality(st.sessions[sessionId].receivedChunks)
                # st.sessions[sessionId].totalChunks
    THEN Reply(st, 400, "Missing chunks",
               [NoData EXCEPT
                   !.received = Cardinality(st.sessions[sessionId].receivedChunks),
                   !.expected = st.sessions[sessionId].totalChunks])
    ELSE LET session   == st.sessions[sessionId]
             finalPath == ProbeFree(st.files, st.dirs, session.targetDir, fileName,
                                    PathJoin(<<session.targetDir, fileName>>), 1)
             out       == IF CanWrite(st.files, st.dirs, finalPath)
                          THEN Combine(st.files, session.tempDir, session.totalChunks,
                                       0, failAt, <<>>)
                          ELSE [ok |-> FALSE, data |-> <<>>]
             written   == IF CanWrite(st.files, st.dirs, finalPath)
                          THEN WriteFile(st.files, finalPath, out.data)
                          ELSE st.files
             st1       == [st EXCEPT
                              !.files = CleanupFiles(RmFiles(written, session.tempDir)),
                              !.dirs = CleanupDirs(RmDirs(st.dirs, session.tempDir)),
                              !.sessions = Without(st.sessions, sessionId)]
         IN  IF out.ok
             THEN Reply(st1, 200, "File uploaded successfully via chunked upload",
                        [NoData EXCEPT !.name = BaseName(finalPath, <<>>),
                                       !.path = finalPath,
                                       !.size = Len(out.data)])
             ELSE Reply(st1, 500, "Failed to finalize chunked upload", NoData)

FinalizeUpload(userId, sessionId, fileName, totalChunks, failAt) ==
    Becomes(FinalizeHandler(St, userId, sessionId, fileName, totalChunks, failAt))

\* ------------------------------- DELETE /upload-chunked/cancel/:sessionId
\* a cancel that removes the scratch directory and keeps the registry entry
CancelHandlerKeepsEntry(st, userId, sessionId) ==
    IF sessionId \notin DOMAIN st.sessions
    THEN Reply(st, 404, "Upload session not found", NoData)
    ELSE IF st.sessions[sessionId].userId # userId
    THEN Reply(st, 403, "Access denied", NoData)
    ELSE Reply([st EXCEPT
                   !.files = CleanupFiles(RmFiles(st.files, st.sessions[sessionId].tempDir)),
                   !.dirs = CleanupDirs(RmDirs(st.dirs, st.sessions[sessionId].tempDir))],
               200, "Upload session cancelled successfully", NoData)

\* a cancel that does not look at who owns the session
CancelHandlerAnyUser(st, userId, sessionId) ==
    IF sessionId \notin DOMAIN st.sessions
    THEN Reply(st, 404, "Upload session not found", NoData)
    ELSE Reply([st EXCEPT
                   !.files = CleanupFiles(RmFiles(st.files, st.sessions[sessionId].tempDir)),
                   !.dirs = CleanupDirs(RmDirs(st.dirs, st.sessions[sessionId].tempDir)),
                   !.sessions = Without(st.sessions, sessionId)],
               200, "Upload session cancelled successfully", NoData)

\* a cancel that answers success for a session it does not find
CancelHandlerLenient(st, userId, sessionId) ==
    IF sessionId \notin DOMAIN st.sessions
    THEN Reply(st, 200, "Upload session cancelled successfully", NoData)
    ELSE IF st.sessions[sessionId].userId # userId
    THEN Reply(st, 403, "Access denied", NoData)
    ELSE Reply([st EXCEPT
                   !.files = CleanupFiles(RmFiles(st.files, st.sessions[sessionId].tempDir)),
                   !.dirs = CleanupDirs(RmDirs(st.dirs, st.sessions[sessionId].tempDir)),
                   !.sessions = Without(st.sessions, sessionId)],
               200, "Upload session cancelled successfully", NoData)

CancelHandler(st, userId, sessionId) ==
    IF sessionId \notin DOMAIN st.sessions
    THEN Reply(st, 404, "Upload session not found", NoData)
    ELSE IF st.sessions[sessionId].userId # userId
    THEN Reply(st, 403, "Access denied", NoData)
    ELSE Reply([st EXCEPT
                   !.files = CleanupFiles(RmFiles(st.files, st.sessions[sessionId].tempDir)),
                   !.dirs = CleanupDirs(RmDirs(st.dirs, st.sessions[sessionId].tempDir)),
                   !.sessions = Without(st.sessions, sessionId)],
               200, "Upload session cancelled successfully", NoData)

CancelUpload(userId, sessionId) == Becomes(CancelHandler(St, userId, sessionId))

\* ------------------------------------------- setInterval stale-session sweep
\* a staleness test that no session ever meets
StaleNever(session, t) == FALSE

\* a staleness test that lets a session live one sweep period longer
StaleLate(session, t) == t - session.lastUpdate > STALE_TIME + 1

Stale(session, t) == t - session.lastUpdate > STALE_TIME

RECURSIVE RmAll(_, _)
RmAll(fs, ps) ==
    IF ps = {} THEN fs
    ELSE LET p == CHOOSE q \in ps : TRUE IN RmAll(RmFiles(fs, p), ps \ {p})

RECURSIVE RmAllDirs(_, _)
RmAllDirs(ds, ps) ==
    IF ps = {} THEN ds
    ELSE LET p == CHOOSE q \in ps : TRUE IN RmAllDirs(RmDirs(ds, p), ps \ {p})

\* the sweep that runs when the clock reaches t
Sweep(st, t) ==
    LET stale == {s \in DOMAIN st.sessions : Stale(st.sessions[s], t)}
        gone  == {st.sessions[s].tempDir : s \in stale}
    IN  [sessions |-> [s \in DOMAIN st.sessions \ stale |-> st.sessions[s]],
         files    |-> CleanupFiles(RmAll(st.files, gone)),
         dirs     |-> CleanupDirs(RmAllDirs(st.dirs, gone)),
         now      |-> t]

StaleSweep == Becomes([st |-> Sweep(St, now + 1)])

\* ---------------------------------------------------------- POST /upload
\* fileFilter of the upload middleware
DangerousExts == {<<".", "e", "x", "e">>, <<".", "b", "a", "t">>, <<".", "c", "m", "d">>,
                  <<".", "c", "o", "m">>, <<".", "s", "c", "r">>, <<".", "v", "b", "s">>,
                  <<".", "j", "s">>}

LowerChar(c) ==
    CASE c = "E" -> "e" [] c = "X" -> "x" [] c = "J" -> "j" [] c = "S" -> "s"
      [] OTHER -> c

ToLowerCase(s) == [i \in 1..Len(s) |-> LowerChar(s[i])]

\* one file per request
UploadHandler(st, userId, requestedPath, originalname, content) ==
    LET userDir   == GetUserDirectory(userId)
        targetDir == PathJoin(<<userDir, requestedPath>>)
        filePath  == PathJoin(<<targetDir, originalname>>)
        dirs1     == Mkdirp(st.dirs, targetDir)
        files1    == WriteFile(st.files, filePath, content)
        finalPath == ProbeFree(files1, dirs1, DirName(filePath), originalname, filePath, 1)
        files2    == IF finalPath # filePath THEN Rename(files1, filePath, finalPath)
                     ELSE files1
    IN  IF ToLowerCase(ExtName(originalname)) \in DangerousExts
        THEN Reply(st, 500, "File type is not allowed", NoData)
        ELSE IF ~CanMkdir(st.files, targetDir) \/ ~CanWrite(st.files, dirs1, filePath)
        THEN Reply(st, 500, "Failed to store the file", NoData)
        ELSE Reply([st EXCEPT !.files = CleanupFiles(files2),
                              !.dirs = CleanupDirs(dirs1)],
                   201, "1 file(s) uploaded successfully",
                   [NoData EXCEPT !.name = BaseName(finalPath, <<>>),
                                  !.path = finalPath,
                                  !.size = Len(files2[finalPath])])

DirectUpload(userId, requestedPath, originalname, content) ==
    Becomes(UploadHandler(St, userId, requestedPath, originalname, content))

\* ---------------------------------------------------------- the requests
One(b) == IF b THEN 1 ELSE 0

\* every request the claims range over: any field may be missing
AllInitRequests ==
    [userId : Users, fileName : FileNames \cup {<<>>}, totalChunks : 0..MaxChunks,
     sessionId : SessionIds \cup {<<>>}, path : RequestedPaths]

AllChunkRequests ==
    [userId : Users, sessionId : SessionIds \cup {<<>>},
     chunkIndex : ChunkIndexFields \cup {Undefined}, chunk : Payloads \cup {Undefined}]

\* totalChunks of a finalize request is only tested for presence
AllFinalizeRequests ==
    [userId : Users, sessionId : SessionIds \cup {<<>>},
     fileName : FileNames \cup {<<>>}, totalChunks : {0, MaxChunks},
     failAt : 0..MaxChunks]

\* the requests of a run: a request with a missing field changes nothing
\* whatever its other fields are, so one request stands for each missing field
InitRequests ==
    {r \in AllInitRequests :
        \/ r.fileName # <<>> /\ r.totalChunks # 0 /\ r.sessionId # <<>> /\ (r.userId = <<"a">> \/ r.sessionId = <<"x">>)
        \/ /\ One(r.fileName = <<>>) + One(r.totalChunks = 0) + One(r.sessionId = <<>>) = 1
           /\ r.userId = <<"a">>
           /\ r.totalChunks \in {0, 1}
           /\ r.sessionId \in {<<>>, <<"x">>}}

ChunkRequests ==
    {r \in AllChunkRequests :
        \/ r.sessionId # <<>> /\ r.chunkIndex # Undefined /\ r.chunk # Undefined
        \/ /\ One(r.sessionId = <<>>) + One(r.chunkIndex = Undefined)
                + One(r.chunk = Undefined) = 1
           /\ r.userId = <<"a">>
           /\ r.sessionId \in {<<>>, <<"x">>}
           /\ r.chunkIndex \in {Undefined, <<"0">>}
           /\ r.chunk \in {Undefined, <<"p">>}}

FinalizeRequests ==
    {r \in AllFinalizeRequests :
        \/ r.fileName # <<>> /\ r.totalChunks # 0 /\ r.sessionId # <<>>
        \/ /\ One(r.fileName = <<>>) + One(r.totalChunks = 0) + One(r.sessionId = <<>>) = 1
           /\ r.userId = <<"a">>
           /\ r.sessionId \in {<<>>, <<"x">>}
           /\ r.failAt = MaxChunks}

Next ==
    \/ \E r \in InitRequests :
          InitUpload(r.userId, r.fileName, r.totalChunks * CHUNK_SIZE, r.totalChunks,
                     CHUNK_SIZE, r.sessionId, r.path)
    \/ \E r \in ChunkRequests :
          UploadChunk(r.userId, r.sessionId, r.chunkIndex, r.chunk)
    \/ \E r \in FinalizeRequests :
          FinalizeUpload(r.userId, r.sessionId, r.fileName, r.totalChunks, r.failAt)
    \/ \E userId \in Users, sessionId \in SessionIds :
          CancelUpload(userId, sessionId)
    \/ StaleSweep
    \/ \E userId \in {<<"a">>}, requestedPath \in RequestedPaths,
          originalname \in FileNames, content \in Payloads :
          DirectUpload(userId, requestedPath, originalname, content)

Spec == Init /\ [][Next]_vars

\* ------------------------------------------ the client: uploadFileChunked
MAX_PARALLEL_CHUNKS == 4

Min(a, b) == IF a <= b THEN a ELSE b

\* Math.ceil(file.size / CHUNK_SIZE)
TotalChunks(size) == (size + CHUNK_SIZE - 1) \div CHUNK_SIZE

\* file.slice(start, end) for chunk chunkIndex
Slice(file, chunkIndex) ==
    LET start == chunkIndex * CHUNK_SIZE
        end   == Min(start + CHUNK_SIZE, Len(file))
    IN  SubSeq(file, start + 1, end)

\* a batch of one chunk more than MAX_PARALLEL_CHUNKS
BatchOfFive(i, totalChunks) == i..(Min(i + MAX_PARALLEL_CHUNKS + 1, totalChunks) - 1)

\* the chunk indices of the batch that starts at i
Batch(i, totalChunks) == i..(Min(i + MAX_PARALLEL_CHUNKS, totalChunks) - 1)

Letters == <<"a", "b", "c", "d", "e", "f", "g", "h", "i", "j", "k", "l", "m", "n", "o",
             "p", "q", "r", "s", "t", "u", "v", "w", "x", "y", "z", "A", "B", "C", "D">>

\* the file sizes a client uploads
ClientSizes == {0, 1, CHUNK_SIZE - 1, CHUNK_SIZE, CHUNK_SIZE + 1, 10 * CHUNK_SIZE}

\* the files a client uploads: all bytes different, the same in reverse,
\* all bytes equal
ClientFiles ==
    {SubSeq(Letters, 1, n) : n \in ClientSizes}
        \cup {[i \in 1..n |-> Letters[n + 1 - i]] : n \in ClientSizes}
        \cup {[i \in 1..n |-> "p"] : n \in ClientSizes}

\* the client at the start of uploadFileChunked(file, '/')
NewClient(file) ==
    [pc |-> "init", userId |-> <<"a">>, sessionId |-> <<"x">>,
     fileName |-> <<"d", ".", "t">>, file |-> file,
     totalChunks |-> TotalChunks(Len(file)),
     i |-> 0, pending |-> {}, result |-> NoData]

\* the server handles a request of the client
Serve(out) ==
    /\ chunkSessions' = out.st.sessions
    /\ files' = out.st.files
    /\ dirs' = out.st.dirs
    /\ now' = out.st.now
    /\ UNCHANGED <<steps, inflight>>

\* the client after the batch that starts at i has been sent off
NextBatch(c, i) ==
    IF i >= c.totalChunks THEN [c EXCEPT !.pc = "finalize", !.i = i, !.pending = {}]
    ELSE [c EXCEPT !.pc = "chunks", !.i = i, !.pending = Batch(i, c.totalChunks)]

\* the init request; its response is not looked at
ClientInit ==
    /\ client.pc = "init"
    /\ Serve(InitHandler(St, client.userId, client.fileName, Len(client.file),
                         client.totalChunks, CHUNK_SIZE, client.sessionId, <<"/">>))
    /\ client' = NextBatch(client, 0)

\* the server handles one of the chunk requests of the batch; Promise.all
\* rejects with the first request refused, the others stay on their way
ClientChunk(chunkIndex) ==
    /\ client.pc \in {"chunks", "cancel", "failed"}
    /\ chunkIndex \in client.pending
    /\ \E o \in {ChunkHandler(St, client.userId, client.sessionId, DecStr(chunkIndex),
                              Slice(client.file, chunkIndex))} :
          /\ Serve(o)
          /\ client' =
                LET c == [client EXCEPT !.pending = @ \ {chunkIndex}]
                IN  IF client.pc # "chunks" THEN c
                    ELSE IF o.status # 200 THEN [c EXCEPT !.pc = "cancel"]
                    ELSE IF c.pending = {} THEN NextBatch(c, c.i + MAX_PARALLEL_CHUNKS)
                    ELSE c

\* the finalize request, served with no disk failure
ClientFinalize ==
    /\ client.pc = "finalize"
    /\ \E o \in {FinalizeHandler(St, client.userId, client.sessionId, client.fileName,
                                 client.totalChunks, client.totalChunks)} :
          /\ Serve(o)
          /\ client' = IF o.status = 200
                       THEN [client EXCEPT !.pc = "done", !.result = o.data]
                       ELSE [client EXCEPT !.pc = "cancel"]

\* cancelUpload in the catch block; its failure is only logged
ClientCancel ==
    /\ client.pc = "cancel"
    /\ Serve(CancelHandler(St, client.userId, client.sessionId))
    /\ client' = [client EXCEPT !.pc = "failed"]

ClientStart ==
    /\ ServerInit
    /\ inflight = <<>>
    /\ client \in {NewClient(file) : file \in ClientFiles}

ClientNext ==
    \/ ClientInit
    \/ \E chunkIndex \in 0..(10 * CHUNK_SIZE) : ClientChunk(chunkIndex)
    \/ ClientFinalize
    \/ ClientCancel

\* one client uploads one file to a server that serves nobody else
SpecClient == ClientStart /\ [][ClientNext]_vars

\* --------------------- the client when requests fail and the user cancels
\* uploadFiles sends a file through uploadFileChunked only when it is larger
\* than two chunks; these sizes make one, two and three batches
UploadSizes == {2 * CHUNK_SIZE + 1, MAX_PARALLEL_CHUNKS * CHUNK_SIZE + 1,
                2 * MAX_PARALLEL_CHUNKS * CHUNK_SIZE + 1}

\* the target paths the caller passes: one the server accepts, one it
\* answers with 403
UploadPaths == {<<"/">>, <<".", ".">>}

\* the client at the start of uploadFileChunked(file, path).  Beside what the
\* function holds, the record keeps what it has done so far: the indices
\* dispatched (sent) and how many dispatches that took, the indices
\* acknowledged, whether the init response was ok, how many finalize and
\* cancel requests it issued, whether a chunk request failed and what had been
\* dispatched by then, the progress status it reported last, whether it
\* threw, and what the user did with the cancel button of UploadZone
NewUpload(file, path) ==
    [pc |-> "init", userId |-> <<"a">>, sessionId |-> <<"x">>,
     fileName |-> <<"d", ".", "t">>, file |-> file, path |-> path,
     totalChunks |-> TotalChunks(Len(file)),
     i |-> 0, pending |-> {}, result |-> NoData,
     initOk |-> TRUE, sent |-> {}, dispatches |-> 0, acked |-> {},
     finalizes |-> 0, cancels |-> 0, cancelFailed |-> FALSE,
     chunkFailed |-> FALSE, sentAtFailure |-> {},
     status |-> "none", thrown |-> FALSE,
     zone |-> "idle", sentAtClick |-> {}]

\* fetch rejects: the request never reaches the server
Rejected == Reply(St, 0, "fetch failed", NoData)

\* the loop goes on with the batch that starts at i, or leaves for finalize
Dispatch(c, i) ==
    IF i >= c.totalChunks
    THEN [c EXCEPT !.pc = "finalize", !.i = i, !.pending = {}]
    ELSE [c EXCEPT !.pc = "chunks", !.i = i, !.pending = Batch(i, c.totalChunks),
                   !.sent = @ \cup Batch(i, c.totalChunks),
                   !.dispatches = @ + Cardinality(Batch(i, c.totalChunks))]

\* control reaches the catch block of uploadFileChunked
Caught(c) == [c EXCEPT !.pc = "cancel"]

\* await fetch(init): a rejection is thrown, the response is not looked at
FetchInit ==
    /\ client.pc = "init"
    /\ \E o \in {Rejected,
                 InitHandler(St, client.userId, client.fileName, Len(client.file),
                             client.totalChunks, CHUNK_SIZE, client.sessionId,
                             client.path)} :
          /\ Serve(o)
          /\ client' = IF o.status = 0 THEN Caught(client)
                       ELSE Dispatch([client EXCEPT !.initOk = o.status = 200], 0)

\* one uploadChunk of the batch in flight settles; Promise.all rejects with
\* the first that fails, the others stay on their way; when the last of the
\* batch is acknowledged progress is reported and the loop goes on
FetchChunk(chunkIndex) ==
    /\ client.pc \in {"chunks", "cancel", "failed"}
    /\ chunkIndex \in client.pending
    /\ \E o \in {Rejected,
                 ChunkHandler(St, client.userId, client.sessionId, DecStr(chunkIndex),
                              Slice(client.file, chunkIndex))} :
          /\ Serve(o)
          /\ client' =
                LET c == [client EXCEPT !.pending = @ \ {chunkIndex}]
                IN  IF client.pc # "chunks" THEN c
                    ELSE IF o.status # 200
                    THEN Caught([c EXCEPT !.chunkFailed = TRUE,
                                          !.sentAtFailure = client.sent])
                    ELSE IF c.pending = {}
                    THEN Dispatch([c EXCEPT !.acked = @ \cup {chunkIndex},
                                            !.status = "uploading"],
                                  c.i + MAX_PARALLEL_CHUNKS)
                    ELSE [c EXCEPT !.acked = @ \cup {chunkIndex}]

\* await fetch(finalize), served with no disk failure: !response.ok throws,
\* otherwise 'completed' is reported and result.data returned
FetchFinalize ==
    /\ client.pc = "finalize"
    /\ \E o \in {Rejected,
                 FinalizeHandler(St, client.userId, client.sessionId, client.fileName,
                                 client.totalChunks, client.totalChunks)} :
          /\ Serve(o)
          /\ client' = IF o.status = 200
                       THEN [client EXCEPT !.pc = "done", !.finalizes = @ + 1,
                                           !.result = o.data, !.status = "completed"]
                       ELSE Caught([client EXCEPT !.finalizes = @ + 1])

\* a catch block that gives up without rethrowing when cancelUpload fails
FetchCancelSwallows ==
    /\ client.pc = "cancel"
    /\ \E o \in {Rejected, CancelHandler(St, client.userId, client.sessionId)} :
          /\ Serve(o)
          /\ client' = [client EXCEPT !.pc = "failed", !.cancels = @ + 1,
                                      !.cancelFailed = o.status # 200,
                                      !.status = IF o.status = 200 THEN "error" ELSE @,
                                      !.thrown = o.status = 200]

\* the catch block: await this.cancelUpload(sessionId), whose failure is
\* only logged; 'error' is reported and the error thrown on
FetchCancel ==
    /\ client.pc = "cancel"
    /\ \E o \in {Rejected, CancelHandler(St, client.userId, client.sessionId)} :
          /\ Serve(o)
          /\ client' = [client EXCEPT !.pc = "failed", !.cancels = @ + 1,
                                      !.cancelFailed = o.status # 200,
                                      !.status = "error", !.thrown = TRUE]

\* the user presses cancel in UploadZone while chunks are being uploaded; the
\* session id is known there once progress has been reported
ZoneCancel ==
    /\ client.pc = "chunks"
    /\ client.status = "uploading"
    /\ client.zone = "idle"
    /\ client' = [client EXCEPT !.zone = "cancelling", !.sentAtClick = client.sent]
    /\ UNCHANGED <<chunkSessions, files, dirs, now, steps, inflight>>

\* fileSystemAPI.cancelUpload of UploadZone settles; uploadFileChunked is
\* not told
ZoneCancelFetch ==
    /\ client.zone = "cancelling"
    /\ \E o \in {Rejected, CancelHandler(St, client.userId, client.sessionId)} :
          /\ Serve(o)
          /\ client' = [client EXCEPT !.zone = IF o.status = 200 THEN "cancelled"
                                               ELSE "cancel failed"]

FetchStart ==
    /\ ServerInit
    /\ inflight = <<>>
    /\ client \in {NewUpload(SubSeq(Letters, 1, n), path) :
                      n \in UploadSizes, path \in UploadPaths}

FetchNext ==
    \/ FetchInit
    \/ \E chunkIndex \in 0..(2 * MAX_PARALLEL_CHUNKS) : FetchChunk(chunkIndex)
    \/ FetchFinalize
    \/ FetchCancel
    \/ ZoneCancel
    \/ ZoneCancelFetch

\* one client uploads one file; any of its requests may fail on the way,
\* and the user may cancel
SpecFetch == FetchStart /\ [][FetchNext]_vars

\* ------------------------------------------- requests that overlap in time
\* Node runs a handler up to its next await; what other requests and the
\* sweep timer do in between is seen by the rest of the handler.  A request
\* in flight is a record of its position (pc) and of the values its handler
\* holds.  The requests are those of user "a" on session "x".
RaceUser == <<"a">>

RaceSession == <<"x">>

RaceFile == <<"d", ".", "t">>

\* the bytes of chunk i of the file being uploaded
ChunkBytes(i) == <<Letters[i + 1]>>

\* the bytes of a chunk that is sent (again) late
LateBytes == <<"Z">>

EmptyServer == [sessions |-> <<>>, files |-> <<>>, dirs |-> {<<"/">>, Dirname}, now |-> 0]

RECURSIVE WithChunks(_, _)
\* the server after chunks 0..n-1 have been uploaded to the session
WithChunks(st, n) ==
    IF n = 0 THEN st
    ELSE ChunkHandler(WithChunks(st, n - 1), RaceUser, RaceSession,
                      DecStr(n - 1), ChunkBytes(n - 1)).st

\* the server holding a session with all of its MaxChunks chunks
Uploaded ==
    WithChunks(InitHandler(EmptyServer, RaceUser, RaceFile, MaxChunks * CHUNK_SIZE,
                           MaxChunks, CHUNK_SIZE, RaceSession, <<"/">>).st,
               MaxChunks)

RECURSIVE SweptUntil(_, _)
\* the server after the sweeps at times 1..t
SweptUntil(st, t) == IF t = 0 THEN st ELSE Sweep(SweptUntil(st, t - 1), t)

\* the same session left alone until the next sweep finds it stale
LeftAlone == SweptUntil(Uploaded, STALE_TIME)

\* a request before its handler has run (during: the finalize requests that
\* were in progress when it arrived, kept for the record)
Request(op) ==
    [op |-> op, pc |-> "start", status |-> 0, sessionId |-> RaceSession,
     tempDir |-> <<>>, targetDir |-> <<>>, totalChunks |-> 0,
     finalPath |-> <<>>, counter |-> 1, i |-> 0, pos |-> 0, size |-> 0,
     tmpPath |-> <<>>, chunkIndex |-> 0, gone |-> {}, atStart |-> <<>>,
     during |-> {}]

RaceRequests ==
    {"finalize", "finalize again", "cancel", "chunk", "sweep"}

RaceInit ==
    /\ \E st \in {Uploaded, LeftAlone} :
          /\ chunkSessions = st.sessions
          /\ files = st.files
          /\ dirs = st.dirs
          /\ now = st.now
    /\ steps = 0
    /\ client = NoClient
    /\ inflight = <<>>

\* the request id moves on to r; the disk and the registry become fs, ds, ss
Moves(id, r, ss, fs, ds) ==
    /\ inflight' = [j \in DOMAIN inflight \cup {id} |-> IF j = id THEN r ELSE inflight[j]]
    /\ chunkSessions' = ss
    /\ files' = fs
    /\ dirs' = ds
    /\ UNCHANGED <<steps, client>>

Answered(r, status) == [r EXCEPT !.pc = "done", !.status = status]

\* the chunk files of a scratch directory, by index
BlobsIn(fs, tempDir, totalChunks) ==
    [i \in {j \in 0..(totalChunks - 1) : ChunkPath(tempDir, j) \in DOMAIN fs} |->
        fs[ChunkPath(tempDir, i)]]

\* a positioned write of data into a file that holds content
WriteAt(content, pos, data) ==
    [j \in 1..(IF Len(content) > pos + Len(data) THEN Len(content) ELSE pos + Len(data)) |->
        IF j > pos /\ j <= pos + Len(data) THEN data[j - pos]
        ELSE IF j <= Len(content) THEN content[j]
        ELSE "nul"]

\* the session a request is for: "finalize other" is for a second session
OtherSession == <<"y">>

SessionOf(id) == IF id = "finalize other" THEN OtherSession ELSE RaceSession

\* the throw of the combine loop lands in the catch block of finalize, which
\* looks the session up again
Thrown(r) ==
    IF r.sessionId \in DOMAIN chunkSessions
    THEN [r EXCEPT !.pc = "error rm"]
    ELSE [r EXCEPT !.pc = "error cleanup"]

\* finalize, from the entry of the handler to its first await
FinalizeStart(id) ==
    /\ id \in {"finalize", "finalize again", "finalize other"}
    /\ id \notin DOMAIN inflight
    /\ LET r == [Request("finalize") EXCEPT !.sessionId = SessionOf(id)]
       IN  IF r.sessionId \notin DOMAIN chunkSessions
           THEN Moves(id, Answered(r, 404), chunkSessions, files, dirs)
           ELSE LET session == chunkSessions[r.sessionId]
                IN  IF session.userId # RaceUser
                    THEN Moves(id, Answered(r, 403), chunkSessions, files, dirs)
                    ELSE IF Cardinality(session.receivedChunks) # session.totalChunks
                    THEN Moves(id, Answered(r, 400), chunkSessions, files, dirs)
                    ELSE Moves(id, [r EXCEPT !.pc = "probe",
                                             !.tempDir = session.tempDir,
                                             !.targetDir = session.targetDir,
                                             !.totalChunks = session.totalChunks,
                                             !.finalPath = PathJoin(<<session.targetDir, RaceFile>>),
                                             !.atStart = BlobsIn(files, session.tempDir,
                                                                 session.totalChunks)],
                               chunkSessions, files, dirs)
    /\ UNCHANGED now

\* one round of the conflict loop: await fs.access(finalPath); when the
\* name is free the write stream is created
FinalizeProbe(id) ==
    /\ id \in DOMAIN inflight
    /\ inflight[id].op = "finalize" /\ inflight[id].pc = "probe"
    /\ LET r == inflight[id]
       IN  IF Exists(files, dirs, r.finalPath)
           THEN Moves(id, [r EXCEPT !.finalPath = PathJoin(<<r.targetDir,
                                                     ConflictName(RaceFile, r.counter)>>),
                                    !.counter = r.counter + 1],
                      chunkSessions, files, dirs)
           ELSE Moves(id, [r EXCEPT !.pc = "open"], chunkSessions, files, dirs)
    /\ UNCHANGED now

\* the write stream opens its file: created, or truncated when it exists
FinalizeOpen(id) ==
    /\ id \in DOMAIN inflight
    /\ inflight[id].op = "finalize" /\ inflight[id].pc = "open"
    /\ LET r == inflight[id]
       IN  IF CanWrite(files, dirs, r.finalPath)
           THEN Moves(id, [r EXCEPT !.pc = "copy"], chunkSessions,
                      WriteFile(files, r.finalPath, <<>>), dirs)
           ELSE Moves(id, Thrown(r), chunkSessions, files, dirs)
    /\ UNCHANGED now

\* one round of the combine loop: fs.access and fs.readFile of chunk i,
\* then the write at the position of the stream
FinalizeCopy(id) ==
    /\ id \in DOMAIN inflight
    /\ inflight[id].op = "finalize" /\ inflight[id].pc = "copy"
    /\ LET r         == inflight[id]
           chunkPath == ChunkPath(r.tempDir, r.i)
       IN  IF chunkPath \notin DOMAIN files
           THEN Moves(id, Thrown(r), chunkSessions, files, dirs)
           ELSE Moves(id, [r EXCEPT !.i = r.i + 1,
                                    !.pos = r.pos + Len(files[chunkPath]),
                                    !.pc = IF r.i + 1 >= r.totalChunks
                                           THEN "close" ELSE "copy"],
                      chunkSessions,
                      WriteFile(files, r.finalPath,
                                WriteAt(IF r.finalPath \in DOMAIN files
                                        THEN files[r.finalPath] ELSE <<>>,
                                        r.pos, files[chunkPath])),
                      dirs)
    /\ UNCHANGED now

\* writeStream.end and fs.stat(finalPath)
FinalizeClose(id) ==
    /\ id \in DOMAIN inflight
    /\ inflight[id].op = "finalize" /\ inflight[id].pc = "close"
    /\ LET r == inflight[id]
       IN  IF r.finalPath \in DOMAIN files
           THEN Moves(id, [r EXCEPT !.pc = "rm", !.size = Len(files[r.finalPath])],
                      chunkSessions, files, dirs)
           ELSE Moves(id, Thrown(r), chunkSessions, files, dirs)
    /\ UNCHANGED now

\* await fs.rm(session.tempDir)
FinalizeRm(id) ==
    /\ id \in DOMAIN inflight
    /\ inflight[id].op = "finalize" /\ inflight[id].pc = "rm"
    /\ LET r == inflight[id]
       IN  Moves(id, [r EXCEPT !.pc = "cleanup"], chunkSessions,
                 RmFiles(files, r.tempDir), RmDirs(dirs, r.tempDir))
    /\ UNCHANGED now

\* await cleanupTempDirectory(), then chunkSessions.delete and the answer
FinalizeCleanup(id) ==
    /\ id \in DOMAIN inflight
    /\ inflight[id].op = "finalize" /\ inflight[id].pc = "cleanup"
    /\ LET r == inflight[id]
       IN  Moves(id, Answered(r, 200), Without(chunkSessions, r.sessionId),
                 CleanupFiles(files), CleanupDirs(dirs))
    /\ UNCHANGED now

\* the catch block: await fs.rm(session.tempDir), then chunkSessions.delete
FinalizeErrorRm(id) ==
    /\ id \in DOMAIN inflight
    /\ inflight[id].op = "finalize" /\ inflight[id].pc = "error rm"
    /\ LET r == inflight[id]
       IN  Moves(id, [r EXCEPT !.pc = "error cleanup"],
                 Without(chunkSessions, r.sessionId),
                 RmFiles(files, r.tempDir), RmDirs(dirs, r.tempDir))
    /\ UNCHANGED now

\* the catch block: await cleanupTempDirectory(), then the answer (the
\* chunkSessions.delete before it found no session or came right after the
\* fs.rm above)
FinalizeErrorCleanup(id) ==
    /\ id \in DOMAIN inflight
    /\ inflight[id].op = "finalize" /\ inflight[id].pc = "error cleanup"
    /\ LET r == inflight[id]
       IN  Moves(id, Answered(r, 500), chunkSessions,
                 CleanupFiles(files), CleanupDirs(dirs))
    /\ UNCHANGED now

\* cancel, from the entry of the handler to its first await
CancelStart(id) ==
    /\ id = "cancel"
    /\ id \notin DOMAIN inflight
    /\ LET r == Request("cancel")
       IN  IF r.sessionId \notin DOMAIN chunkSessions
           THEN Moves(id, Answered(r, 404), chunkSessions, files, dirs)
           ELSE IF chunkSessions[r.sessionId].userId # RaceUser
           THEN Moves(id, Answered(r, 403), chunkSessions, files, dirs)
           ELSE Moves(id, [r EXCEPT !.pc = "rm",
                                    !.tempDir = chunkSessions[r.sessionId].tempDir],
                      chunkSessions, files, dirs)
    /\ UNCHANGED now

\* await fs.rm(session.tempDir), then chunkSessions.delete
CancelRm(id) ==
    /\ id \in DOMAIN inflight
    /\ inflight[id].op = "cancel" /\ inflight[id].pc = "rm"
    /\ LET r == inflight[id]
       IN  Moves(id, [r EXCEPT !.pc = "cleanup"], Without(chunkSessions, r.sessionId),
                 RmFiles(files, r.tempDir), RmDirs(dirs, r.tempDir))
    /\ UNCHANGED now

\* await cleanupTempDirectory(), then the answer
CancelCleanup(id) ==
    /\ id \in DOMAIN inflight
    /\ inflight[id].op = "cancel" /\ inflight[id].pc = "cleanup"
    /\ Moves(id, Answered(inflight[id], 200), chunkSessions,
             CleanupFiles(files), CleanupDirs(dirs))
    /\ UNCHANGED now

\* a chunk request arrives: chunkUpload (multer) stores its part
ChunkStore(id, chunkIndex) ==
    /\ id = "chunk"
    /\ id \notin DOMAIN inflight
    /\ LET r == Request("chunk")
       IN  Moves(id, [r EXCEPT !.pc = "lookup", !.chunkIndex = chunkIndex,
                               !.tmpPath = FreshTemp(files),
                               !.during = {j \in DOMAIN inflight :
                                              /\ inflight[j].op = "finalize"
                                              /\ inflight[j].pc # "done"}],
                 chunkSessions, WriteFile(files, FreshTemp(files), LateBytes),
                 Mkdirp(dirs, ChunksDir))
    /\ UNCHANGED now

\* the chunk handler, from its entry to the await of fs.rename
ChunkLookup(id) ==
    /\ id \in DOMAIN inflight
    /\ inflight[id].op = "chunk" /\ inflight[id].pc = "lookup"
    /\ LET r == inflight[id]
       IN  IF r.sessionId \notin DOMAIN chunkSessions
           THEN Moves(id, Answered(r, 404), chunkSessions, files, dirs)
           ELSE IF chunkSessions[r.sessionId].userId # RaceUser
           THEN Moves(id, Answered(r, 403), chunkSessions, files, dirs)
           ELSE Moves(id, [r EXCEPT !.pc = "rename",
                                    !.tempDir = chunkSessions[r.sessionId].tempDir],
                      chunkSessions, files, dirs)
    /\ UNCHANGED now

\* fs.rename, then the session object the handler holds is updated (it is
\* the registered one unless the session has been deleted meanwhile)
ChunkRename(id) ==
    /\ id \in DOMAIN inflight
    /\ inflight[id].op = "chunk" /\ inflight[id].pc = "rename"
    /\ LET r         == inflight[id]
           chunkPath == ChunkPath(r.tempDir, r.chunkIndex)
       IN  IF ~CanRename(files, dirs, r.tmpPath, chunkPath)
           THEN Moves(id, Answered(r, 500), chunkSessions, files, dirs)
           ELSE Moves(id, Answered(r, 200),
                      IF r.sessionId \in DOMAIN chunkSessions
                      THEN [chunkSessions EXCEPT
                               ![r.sessionId].receivedChunks = @ \cup {r.chunkIndex},
                               ![r.sessionId].lastUpdate = now]
                      ELSE chunkSessions,
                      Rename(files, r.tmpPath, chunkPath), dirs)
    /\ UNCHANGED now

\* the sweep timer fires: the stale sessions leave the registry at once,
\* the removals from the disk are started and not awaited
SweepEvict(id) ==
    /\ id = "sweep"
    /\ id \notin DOMAIN inflight
    /\ LET stale == {s \in DOMAIN chunkSessions : Stale(chunkSessions[s], now + 1)}
       IN  Moves(id, [Request("sweep") EXCEPT
                         !.pc = "disk",
                         !.gone = {chunkSessions[s].tempDir : s \in stale}],
                 [s \in DOMAIN chunkSessions \ stale |-> chunkSessions[s]],
                 files, dirs)
    /\ now' = now + 1

\* fs.rm of the scratch directories of the evicted sessions and
\* cleanupTempDirectory() take effect
SweepDisk(id) ==
    /\ id \in DOMAIN inflight
    /\ inflight[id].op = "sweep" /\ inflight[id].pc = "disk"
    /\ LET r == inflight[id]
       IN  Moves(id, Answered(r, 0), chunkSessions,
                 CleanupFiles(RmAll(files, r.gone)), CleanupDirs(RmAllDirs(dirs, r.gone)))
    /\ UNCHANGED now

RaceNext ==
    \E id \in RaceRequests :
        \/ FinalizeStart(id)
        \/ FinalizeProbe(id)
        \/ FinalizeOpen(id)
        \/ FinalizeCopy(id)
        \/ FinalizeClose(id)
        \/ FinalizeRm(id)
        \/ FinalizeCleanup(id)
        \/ FinalizeErrorRm(id)
        \/ FinalizeErrorCleanup(id)
        \/ CancelStart(id)
        \/ CancelRm(id)
        \/ CancelCleanup(id)
        \/ \E chunkIndex \in 0..(MaxChunks - 1) : ChunkStore(id, chunkIndex)
        \/ ChunkLookup(id)
        \/ ChunkRename(id)
        \/ SweepEvict(id)
        \/ SweepDisk(id)

\* requests on one complete session that overlap in time
SpecRace == RaceInit /\ [][RaceNext]_vars

\* ------------------------------- two sessions for the same destination
RECURSIVE WithChunksOf(_, _, _, _)
\* the server after chunks 0..n-1 have been uploaded to session sessionId,
\* chunk i with the byte Letters[first + i]
WithChunksOf(st, sessionId, n, first) ==
    IF n = 0 THEN st
    ELSE ChunkHandler(WithChunksOf(st, sessionId, n - 1, first), RaceUser, sessionId,
                      DecStr(n - 1), <<Letters[first + n - 1]>>).st

\* the bytes of the whole file of the second session
OtherContent == SubSeq(Letters, 1 + MaxChunks, 2 * MaxChunks)

\* both sessions hold all their chunks; they have the same fileName and the
\* same target directory
UploadedTwice ==
    WithChunksOf(InitHandler(Uploaded, RaceUser, RaceFile, MaxChunks * CHUNK_SIZE,
                             MaxChunks, CHUNK_SIZE, OtherSession, <<"/">>).st,
                 OtherSession, MaxChunks, 1 + MaxChunks)

TwoInit ==
    /\ chunkSessions = UploadedTwice.sessions
    /\ files = UploadedTwice.files
    /\ dirs = UploadedTwice.dirs
    /\ now = UploadedTwice.now
    /\ steps = 0
    /\ client = NoClient
    /\ inflight = <<>>

TwoNext ==
    \E id \in {"finalize", "finalize other"} :
        \/ FinalizeStart(id)
        \/ FinalizeProbe(id)
        \/ FinalizeOpen(id)
        \/ FinalizeCopy(id)
        \/ FinalizeClose(id)
        \/ FinalizeRm(id)
        \/ FinalizeCleanup(id)
        \/ FinalizeErrorRm(id)
        \/ FinalizeErrorCleanup(id)

\* the finalize requests of two complete sessions overlap
SpecTwo == TwoInit /\ [][TwoNext]_vars

\* ------------------------------------------------- the clock and the timer
\* The clock is read in units of one sweep period.  The timer does not fire
\* at the instant the reading changes: between two sweeps the reading
\* changes once, and requests are served before and after it.  The timer is
\* the request "sweep" of inflight, waiting or due.
MaxTime == 2

Timer(pc) == [j \in {"sweep"} |-> [Request("sweep") EXCEPT !.pc = pc]]

JanitorInit ==
    /\ ServerInit
    /\ client = NoClient
    /\ inflight = Timer("waiting")

\* the reading of the clock changes; requests arrive until MaxTime, and the
\* clock is followed for as long as a session of that time can stay
Tick ==
    /\ inflight["sweep"].pc = "waiting"
    /\ now < MaxTime + STALE_TIME + 1
    /\ now' = now + 1
    /\ inflight' = Timer("due")
    /\ UNCHANGED <<chunkSessions, files, dirs, steps, client>>

\* the setInterval callback runs
TimerSweep ==
    /\ inflight["sweep"].pc = "due"
    /\ LET st == Sweep(St, now)
       IN  /\ chunkSessions' = st.sessions
           /\ files' = st.files
           /\ dirs' = st.dirs
    /\ inflight' = Timer("waiting")
    /\ UNCHANGED <<now, steps, client>>

\* the requests of user "a" that carry their fields; chunks and finalize
\* for the sessions of the registry
JanitorNext ==
    \/ \E sessionId \in SessionIds, totalChunks \in 1..MaxChunks :
          /\ now <= MaxTime
          /\ InitUpload(<<"a">>, <<"d", ".", "t">>, totalChunks * CHUNK_SIZE,
                        totalChunks, CHUNK_SIZE, sessionId, <<"/">>)
    \/ \E sessionId \in DOMAIN chunkSessions, chunkIndex \in 0..(MaxChunks - 1) :
          /\ now <= MaxTime
          /\ UploadChunk(<<"a">>, sessionId, DecStr(chunkIndex), <<"p">>)
    \/ \E sessionId \in DOMAIN chunkSessions :
          /\ now <= MaxTime
          /\ FinalizeUpload(<<"a">>, sessionId, <<"d", ".", "t">>, MaxChunks, MaxChunks)
    \/ \E sessionId \in SessionIds :
          /\ now <= MaxTime
          /\ CancelUpload(<<"a">>, sessionId)
    \/ Tick
    \/ TimerSweep

\* the server with its clock and its sweep timer
SpecJanitor == JanitorInit /\ [][JanitorNext]_vars

\* the clock goes on and the timer callback runs when it is due
SpecJanitorFair == SpecJanitor /\ WF_vars(Tick) /\ WF_vars(TimerSweep)

\* ============================================================ properties
\* The handlers are functions of the server state, so a property of a
\* request is stated at every reachable state for every such request.

Owner(s) == chunkSessions[s].userId

\* a finalize during which the disk does not fail
NoDiskFailure == MaxChunks

\* the finalize request the owner's client sends for session s
OwnerFinalize(st, s, failAt) ==
    FinalizeHandler(st, Owner(s), s, chunkSessions[s].fileName,
                    chunkSessions[s].totalChunks, failAt)

\* the files below directory d
FilesUnder(fs, d) == {f \in DOMAIN fs : Under(f, d)}

\* state st2 still holds the scratch directory and the chunk files that
\* session s has now
KeepsScratch(s, st2) ==
    /\ chunkSessions[s].tempDir \in dirs => chunkSessions[s].tempDir \in st2.dirs
    /\ \A f \in FilesUnder(files, chunkSessions[s].tempDir) :
          f \in DOMAIN st2.files /\ st2.files[f] = files[f]

\* C1: for a session in the registry, the finalize request of its owner (all
\* fields present, no disk failure) succeeds if and only if the set of
\* received chunk indices is exactly {0, ..., totalChunks - 1}.
C1_FinalizeIffExactSet ==
    \A s \in DOMAIN chunkSessions :
        (OwnerFinalize(St, s, NoDiskFailure).status = 200)
            <=> (chunkSessions[s].receivedChunks
                    = 0..(chunkSessions[s].totalChunks - 1))

\* C2: when the reassembly of a finalize fails (response 500), the session
\* is still in the registry and every chunk file stored for it is still in
\* its scratch directory with its content.
C2_FailedFinalizeKeepsSession ==
    \A s \in DOMAIN chunkSessions, failAt \in 0..MaxChunks :
        LET o == OwnerFinalize(St, s, failAt)
        IN  o.status = 500 =>
                /\ s \in DOMAIN o.st.sessions
                /\ KeepsScratch(s, o.st)

\* C3: an init request with all fields present whose sessionId is in the
\* registry is refused and leaves the registered session as it is.
C3_InitRejectsLiveId ==
    \A r \in AllInitRequests :
        (r.sessionId \in DOMAIN chunkSessions /\ r.fileName # <<>> /\ r.totalChunks # 0)
        => LET o == InitHandler(St, r.userId, r.fileName, r.totalChunks * CHUNK_SIZE,
                                r.totalChunks, CHUNK_SIZE, r.sessionId, r.path)
           IN  /\ o.status # 200
               /\ o.st.sessions = chunkSessions

\* C7: the received set of every session holds only indices in
\* 0..totalChunks-1, so it never has more than totalChunks members.
C7_ReceivedInRange ==
    \A s \in DOMAIN chunkSessions :
        /\ chunkSessions[s].receivedChunks \subseteq 0..(chunkSessions[s].totalChunks - 1)
        /\ Cardinality(chunkSessions[s].receivedChunks) <= chunkSessions[s].totalChunks

\* C8: a cleanup that is not aimed at session s (the periodic sweep, the
\* finalize or cancel of another session, a direct upload) keeps the scratch
\* directory and the chunk files of s as long as s stays in the registry.
C8_CleanupSparesLiveSessions ==
    \A s \in DOMAIN chunkSessions :
        /\ s \in DOMAIN Sweep(St, now + 1).sessions => KeepsScratch(s, Sweep(St, now + 1))
        /\ \A s2 \in DOMAIN chunkSessions \ {s}, failAt \in 0..MaxChunks :
              /\ KeepsScratch(s, OwnerFinalize(St, s2, failAt).st)
              /\ KeepsScratch(s, CancelHandler(St, Owner(s2), s2).st)
        /\ \A userId \in Users, requestedPath \in RequestedPaths,
              originalname \in FileNames, content \in Payloads :
              KeepsScratch(s, UploadHandler(St, userId, requestedPath,
                                            originalname, content).st)

\* what a request that is refused may leave behind: the part that multer
\* stored under temp/chunks before the handler ran, nothing else
OnlyStrayPart(st2) ==
    /\ st2.sessions = chunkSessions
    /\ st2.now = now
    /\ dirs \subseteq st2.dirs
    /\ st2.dirs \ dirs \subseteq Ancestors(ChunksDir)
    /\ DOMAIN files \subseteq DOMAIN st2.files
    /\ \A f \in DOMAIN files : st2.files[f] = files[f]
    /\ \A f \in DOMAIN st2.files \ DOMAIN files : Under(f, ChunksDir)

\* the requests on a registered session by a user who does not own it
ForeignChunkRequests ==
    {r \in AllChunkRequests :
        r.sessionId \in DOMAIN chunkSessions /\ r.userId # Owner(r.sessionId)}

ForeignFinalizeRequests ==
    {r \in AllFinalizeRequests :
        r.sessionId \in DOMAIN chunkSessions /\ r.userId # Owner(r.sessionId)}

ForeignCancelRequests ==
    {r \in [userId : Users, sessionId : DOMAIN chunkSessions] :
        r.userId # Owner(r.sessionId)}

ExpectedPath(fs, ds, dir, fileName) ==
    LET free == {k \in 1..(Cardinality(DOMAIN fs) + 1) :
                    ~Exists(fs, ds, PathJoin(<<dir, ConflictName(fileName, k)>>))}
    IN  IF ~Exists(fs, ds, PathJoin(<<dir, fileName>>))
        THEN PathJoin(<<dir, fileName>>)
        ELSE PathJoin(<<dir, ConflictName(fileName, CHOOSE k \in free : \A j \in free : k <= j)>>)

\* st2 holds data at path expected and every user file of now unchanged
StoredBeside(st2, path, expected, data) ==
    /\ path = expected
    /\ expected \in DOMAIN st2.files
    /\ st2.files[expected] = data
    /\ \A f \in UserFiles(files) : f \in DOMAIN st2.files /\ st2.files[f] = files[f]

\* C5: finalize and the direct upload store the new file under the name
\* itself when it is free in the target directory, else under
\* "name (k).ext" for the smallest free k >= 1, and leave the files that
\* are already there unchanged.
C5_ConflictRenaming ==
    /\ \A userId \in Users, requestedPath \in RequestedPaths,
          originalname \in FileNames, content \in Payloads :
          LET o   == UploadHandler(St, userId, requestedPath, originalname, content)
              dir == PathJoin(<<GetUserDirectory(userId), requestedPath>>)
          IN  o.status = 201 =>
                  StoredBeside(o.st, o.data.path,
                               ExpectedPath(files, dirs, dir, originalname), content)
    /\ \A s \in DOMAIN chunkSessions :
          LET o == OwnerFinalize(St, s, NoDiskFailure)
          IN  o.status = 200 =>
                  StoredBeside(o.st, o.data.path,
                               ExpectedPath(files, dirs, chunkSessions[s].targetDir,
                                            chunkSessions[s].fileName),
                               o.st.files[o.data.path])

\* the same rule for finalize alone
C5_FinalizeRenaming ==
    \A s \in DOMAIN chunkSessions :
        LET o == OwnerFinalize(St, s, NoDiskFailure)
        IN  o.status = 200 =>
                StoredBeside(o.st, o.data.path,
                             ExpectedPath(files, dirs, chunkSessions[s].targetDir,
                                          chunkSessions[s].fileName),
                             o.st.files[o.data.path])

\* nothing of session s is left in st2: no registry entry, no scratch
\* directory, no chunk file
Gone(s, st2) ==
    /\ s \notin DOMAIN st2.sessions
    /\ chunkSessions[s].tempDir \notin st2.dirs
    /\ FilesUnder(st2.files, chunkSessions[s].tempDir) = {}

Orders(n) ==
    {order \in [1..n -> 0..(n - 1)] :
        \A i, j \in 1..n : order[i] = order[j] => i = j}

RECURSIVE UploadAll(_, _, _, _)
\* the state after the owner of s has sent chunk order[1], then order[2],
\* ..., chunk i carrying data[i]
UploadAll(st, s, order, data) ==
    IF order = <<>> THEN st
    ELSE UploadAll(ChunkHandler(st, Owner(s), s, DecStr(Head(order)),
                                data[Head(order)]).st,
                   s, Tail(order), data)

RECURSIVE InIndexOrder(_, _, _)
\* data[i] \o data[i+1] \o ... \o data[n-1]
InIndexOrder(data, i, n) ==
    IF i >= n THEN <<>> ELSE data[i] \o InIndexOrder(data, i + 1, n)

\* the chunk files of session s as they are on disk now, by index
Blobs(s) ==
    [i \in {j \in 0..(chunkSessions[s].totalChunks - 1) :
                ChunkPath(chunkSessions[s].tempDir, j) \in DOMAIN files} |->
        files[ChunkPath(chunkSessions[s].tempDir, i)]]

\* C9: when a finalize succeeds, the stored file is the concatenation of
\* the chunks in ascending index order: of the chunk files on disk, and, if
\* the client sends all chunks (again) before it, of the chunks it sent, in
\* whatever order they arrived.
C9_AssembledInIndexOrder ==
    \A s \in DOMAIN chunkSessions :
        LET n == chunkSessions[s].totalChunks
        IN  /\ LET o == OwnerFinalize(St, s, NoDiskFailure)
               IN  o.status = 200 =>
                       o.st.files[o.data.path] = InIndexOrder(Blobs(s), 0, n)
            /\ \A order \in Orders(n), data \in [0..(n - 1) -> Payloads] :
                  LET o == OwnerFinalize(UploadAll(St, s, order, data), s, NoDiskFailure)
                  IN  o.status = 200 =>
                          /\ o.st.files[o.data.path] = InIndexOrder(data, 0, n)
                          /\ o.data.size = Len(InIndexOrder(data, 0, n))

\* a session whose chunks 0 and 1 are on disk with different bytes and
\* whose finalize succeeds, also after the chunks are sent last-first
C9_Witness ==
    \E s \in DOMAIN chunkSessions :
        /\ chunkSessions[s].totalChunks = 2
        /\ chunkSessions[s].receivedChunks = {0, 1}
        /\ DOMAIN Blobs(s) = {0, 1}
        /\ Blobs(s)[0] # Blobs(s)[1]
        /\ OwnerFinalize(St, s, NoDiskFailure).status = 200
        /\ OwnerFinalize(UploadAll(St, s, <<1, 0>>, Blobs(s)), s, NoDiskFailure).status = 200

\* C10: sending a chunk again with the same index is accepted: the chunk
\* file holds the bytes sent last, the received set and the count in the
\* response are those after the first sending, and no other chunk file
\* changes.
C10_ResendReplaces ==
    \A s \in DOMAIN chunkSessions, chunkIndex \in ChunkIndexFields,
       first \in Payloads, second \in Payloads :
        LET o1   == ChunkHandler(St, Owner(s), s, chunkIndex, first)
            o2   == ChunkHandler(o1.st, Owner(s), s, chunkIndex, second)
            blob == ChunkPath(chunkSessions[s].tempDir, ParseInt(chunkIndex))
        IN  o1.status = 200 =>
                /\ o2.status = 200
                /\ o2.st.files[blob] = second
                /\ o2.data.received = o1.data.received
                /\ o2.st.sessions[s].receivedChunks = o1.st.sessions[s].receivedChunks
                /\ DOMAIN o2.st.files = DOMAIN o1.st.files
                /\ \A f \in DOMAIN o1.st.files \ {blob} : o2.st.files[f] = o1.st.files[f]

\* a session that holds chunk 0, for which the same index sent again with
\* other bytes is accepted
C10_Witness ==
    \E s \in DOMAIN chunkSessions, second \in Payloads :
        /\ 0 \in chunkSessions[s].receivedChunks
        /\ 0 \in DOMAIN Blobs(s)
        /\ Blobs(s)[0] # second
        /\ LET o == ChunkHandler(St, Owner(s), s, <<"0">>, second)
           IN  /\ o.status = 200
               /\ o.st.files[ChunkPath(chunkSessions[s].tempDir, 0)] = second
               /\ o.data.received = Cardinality(chunkSessions[s].receivedChunks)

\* C11: a file of size N in {0, 1, C-1, C, C+1, 10C} that the client splits
\* and sends through init, chunk upload and finalize ends up stored with
\* exactly its bytes.
C11_RoundTrip ==
    client.pc \in {"done", "failed"} =>
        /\ client.pc = "done"
        /\ client.result.path \in DOMAIN files
        /\ files[client.result.path] = client.file

\* the same for the sizes other than 0
C11_NonEmptyRoundTrip ==
    (client.pc \in {"done", "failed"} /\ client.file # <<>>) =>
        /\ client.pc = "done"
        /\ client.result.path \in DOMAIN files
        /\ files[client.result.path] = client.file
        /\ client.result.size = Len(client.file)

\* the scratch directory of the session with this id
ScratchOf(sessionId) == PathJoin(<<TempRoot, sessionId>>)

\* in state st every chunk, finalize and cancel request for sessionId that
\* carries its fields is answered 404, whoever sends it
AnsweredNotFound(st, sessionId) ==
    /\ \A userId \in Users, chunkIndex \in ChunkIndexFields, chunk \in Payloads :
          ChunkHandler(st, userId, sessionId, chunkIndex, chunk).status = 404
    /\ \A userId \in Users, fileName \in FileNames, failAt \in 0..MaxChunks :
          FinalizeHandler(st, userId, sessionId, fileName, MaxChunks, failAt).status = 404
    /\ \A userId \in Users : CancelHandler(st, userId, sessionId).status = 404

\* C12: the cancel of a session by its owner succeeds, and after it the
\* scratch directory of the session does not exist and every chunk,
\* finalize and cancel request for its id is answered 404; this stays so
\* as long as the id is not in the registry.
C12_CancelFrees ==
    /\ \A s \in DOMAIN chunkSessions :
          LET o == CancelHandler(St, Owner(s), s)
          IN  /\ o.status = 200
              /\ s \notin DOMAIN o.st.sessions
              /\ chunkSessions[s].tempDir \notin o.st.dirs
              /\ ScratchOf(s) \notin o.st.dirs
              /\ FilesUnder(o.st.files, ScratchOf(s)) = {}
              /\ AnsweredNotFound(o.st, s)
    /\ \A s \in SessionIds \ DOMAIN chunkSessions :
          /\ ScratchOf(s) \notin dirs
          /\ FilesUnder(files, ScratchOf(s)) = {}
          /\ AnsweredNotFound(St, s)

\* a session with chunk files on disk whose cancel removes them, after
\* which a chunk sent for it is answered 404
C12_Witness ==
    \E s \in DOMAIN chunkSessions :
        /\ FilesUnder(files, chunkSessions[s].tempDir) # {}
        /\ CancelHandler(St, Owner(s), s).status = 200
        /\ FilesUnder(CancelHandler(St, Owner(s), s).st.files, ScratchOf(s)) = {}
        /\ ChunkHandler(CancelHandler(St, Owner(s), s).st, Owner(s), s,
                        <<"0">>, <<"p">>).status = 404

\* C13: after a finalize that succeeded, a further finalize request for the
\* same session id (all fields present, from any user) is answered 404,
\* stores no file and changes nothing.
C13_SecondFinalizeNotFound ==
    \A s \in DOMAIN chunkSessions :
        LET o1 == OwnerFinalize(St, s, NoDiskFailure)
        IN  o1.status = 200 =>
                \A userId \in Users, fileName \in FileNames, failAt \in 0..MaxChunks :
                    LET o2 == FinalizeHandler(o1.st, userId, s, fileName,
                                              chunkSessions[s].totalChunks, failAt)
                    IN  /\ o2.status = 404
                        /\ o2.st = o1.st
                        /\ UserFiles(o2.st.files) = UserFiles(o1.st.files)

\* a session of two chunks whose finalize succeeds and stores the file,
\* after which the owner's second finalize is answered 404
C13_Witness ==
    \E s \in DOMAIN chunkSessions :
        /\ chunkSessions[s].totalChunks = 2
        /\ OwnerFinalize(St, s, NoDiskFailure).status = 200
        /\ OwnerFinalize(St, s, NoDiskFailure).data.path
              \in DOMAIN OwnerFinalize(St, s, NoDiskFailure).st.files
        /\ OwnerFinalize(OwnerFinalize(St, s, NoDiskFailure).st, s, NoDiskFailure).status = 404


\* the requests of a run that have been answered with the given status
AnsweredWith(status) ==
    {id \in DOMAIN inflight : inflight[id].pc = "done" /\ inflight[id].status = status}

\* a run from the freshly uploaded session in which only these requests
\* have been sent
OnlySent(ids) == now = 0 /\ DOMAIN inflight \subseteq ids

\* C14: when finalize calls, or a finalize and a cancel, for the same
\* complete session overlap, at most one of them succeeds, the answered
\* others got 404, and the store holds at most one file for the session.
C14_ConsumedAtMostOnce ==
    OnlySent({"finalize", "finalize again", "cancel"}) =>
        /\ Cardinality(AnsweredWith(200)) <= 1
        /\ AnsweredWith(200) # {} =>
              \A id \in DOMAIN inflight :
                  inflight[id].pc = "done" => inflight[id].status \in {200, 404}
        /\ Cardinality(UserFiles(files)) <= 1


\* the bytes of the whole file of the session
RaceContent == InIndexOrder([i \in 0..(MaxChunks - 1) |-> ChunkBytes(i)], 0, MaxChunks)

\* C15: when only a finalize and a sweep of the session's registry overlap,
\* a finalize that found the session with all its chunk files on disk and
\* has been answered succeeded and left the full file: it does not fail and
\* leaves no truncated file on account of what the sweep removes meanwhile.
C15_FinalizeOrJanitor ==
    (/\ DOMAIN inflight \subseteq {"finalize", "sweep"}
     /\ "finalize" \in DOMAIN inflight
     /\ inflight["finalize"].pc = "done"
     /\ DOMAIN inflight["finalize"].atStart = 0..(MaxChunks - 1)) =>
        /\ inflight["finalize"].status = 200
        /\ inflight["finalize"].finalPath \in DOMAIN files
        /\ files[inflight["finalize"].finalPath] = RaceContent


\* C16: when the only other request is a chunk upload for the session that
\* arrived while the finalize was in progress, the file a successful
\* finalize leaves holds the chunk contents that were on disk when the
\* finalize started, in index order.
C16_LateChunkLeftOut ==
    (/\ OnlySent({"finalize", "chunk"})
     /\ "chunk" \in DOMAIN inflight => "finalize" \in inflight["chunk"].during
     /\ "finalize" \in DOMAIN inflight
     /\ inflight["finalize"].pc = "done"
     /\ inflight["finalize"].status = 200) =>
        /\ inflight["finalize"].finalPath \in DOMAIN files
        /\ files[inflight["finalize"].finalPath] =
              InIndexOrder(inflight["finalize"].atStart, 0, MaxChunks)


\* C17: once the sweep that runs at time now has gone through the registry,
\* no session whose last update is more than the staleness threshold (30
\* minutes, three sweep periods) before now is left in it, and when the
\* sweep's removals are done the scratch directory of every session that is
\* not in the registry is gone with all its files.
C17_StaleEvicted ==
    "sweep" \in DOMAIN inflight =>
        /\ \A s \in DOMAIN chunkSessions :
              now - chunkSessions[s].lastUpdate <= STALE_TIME
        /\ inflight["sweep"].pc = "done" =>
              \A s \in SessionIds \ DOMAIN chunkSessions :
                  /\ ScratchOf(s) \notin dirs
                  /\ FilesUnder(files, ScratchOf(s)) = {}

\* the sweep alone found the session stale, evicted it and has finished
C17_Witness ==
    /\ DOMAIN inflight = {"sweep"}
    /\ inflight["sweep"].pc = "done"
    /\ inflight["sweep"].gone = {ScratchOf(RaceSession)}
    /\ now - LeftAlone.sessions[RaceSession].lastUpdate > STALE_TIME
    /\ RaceSession \notin DOMAIN chunkSessions


\* target paths a caller may send: the root of the store, its parent, and a
\* sibling of the caller's directory whose name starts with the caller's name
TraversalPaths ==
    {<<"/">>, <<".", ".">>, <<".", ".", "/", "a", "b">>}

\* the directory a target path of userId resolves to
Resolved(userId, requestedPath) == PathJoin(<<GetUserDirectory(userId), requestedPath>>)

\* C18: an init request that carries its fields and whose target path
\* resolves outside the caller's directory is answered 403 and leaves the
\* registry and the disk as they are; an init that registers a session gives
\* it a target directory inside its owner's directory.
C18_InitStaysInside ==
    \A userId \in Users, sessionId \in SessionIds, requestedPath \in TraversalPaths :
        LET o == InitHandler(St, userId, RaceFile, CHUNK_SIZE, 1, CHUNK_SIZE,
                             sessionId, requestedPath)
        IN  /\ ~Under(Resolved(userId, requestedPath), GetUserDirectory(userId)) =>
                  o.status = 403 /\ o.st = St
            /\ o.status = 200 =>
                  Under(o.st.sessions[sessionId].targetDir, GetUserDirectory(userId))

\* the files that differ between two states of the disk
Written(fs, fs2) ==
    {f \in DOMAIN fs2 : f \notin DOMAIN fs \/ fs[f] # fs2[f]}

\* C19: a direct upload writes no file outside the caller's directory,
\* whatever target path it carries.
C19_UploadStaysInside ==
    \A userId \in Users, requestedPath \in TraversalPaths, content \in Payloads :
        LET o == UploadHandler(St, userId, requestedPath, RaceFile, content)
        IN  \A f \in Written(files, o.st.files) : Under(f, GetUserDirectory(userId))


\* the indices of session s that have not been received
Missing(s) ==
    (0..(chunkSessions[s].totalChunks - 1)) \ chunkSessions[s].receivedChunks

RECURSIVE SendChunks(_, _, _)
\* the owner of s sends the chunks with the given indices, lowest first:
\* the state afterwards and whether every one of them was answered 200
SendChunks(st, s, indices) ==
    IF indices = {} THEN [st |-> st, ok |-> TRUE]
    ELSE LET i    == CHOOSE j \in indices : \A k \in indices : j <= k
             o    == ChunkHandler(st, Owner(s), s, DecStr(i), <<"p">>)
             rest == SendChunks(o.st, s, indices \ {i})
         IN  [st |-> rest.st, ok |-> o.status = 200 /\ rest.ok]

\* C20: the finalize of a session whose received count differs from
\* totalChunks is answered 400 with the received and the expected count and
\* changes nothing; when the owner then uploads the missing chunks, the
\* next finalize succeeds.
C20_IncompleteKeepsSession ==
    \A s \in DOMAIN chunkSessions :
        Cardinality(chunkSessions[s].receivedChunks) # chunkSessions[s].totalChunks =>
            LET o    == OwnerFinalize(St, s, NoDiskFailure)
                sent == SendChunks(o.st, s, Missing(s))
                o2   == OwnerFinalize(sent.st, s, NoDiskFailure)
            IN  /\ o.status = 400
                /\ o.data.received = Cardinality(chunkSessions[s].receivedChunks)
                /\ o.data.expected = chunkSessions[s].totalChunks
                /\ o.st = St
                /\ sent.ok => o2.status = 200

\* C20, the first answer alone: the finalize of a session whose received
\* count differs from totalChunks is answered 400 with both counts and
\* changes nothing.
C20_IncompleteAnswer ==
    \A s \in DOMAIN chunkSessions :
        Cardinality(chunkSessions[s].receivedChunks) # chunkSessions[s].totalChunks =>
            LET o == OwnerFinalize(St, s, NoDiskFailure)
            IN  /\ o.status = 400
                /\ o.data.received = Cardinality(chunkSessions[s].receivedChunks)
                /\ o.data.expected = chunkSessions[s].totalChunks
                /\ o.st = St


\* C21: a finalize that fails during reassembly (answered 500) leaves no
\* file at the destination path it had opened: the store holds the files it
\* held before and no other.
C21_FailedFinalizeLeavesNoFile ==
    \A s \in DOMAIN chunkSessions, failAt \in 0..MaxChunks :
        LET o == OwnerFinalize(St, s, failAt)
        IN  o.status = 500 => UserFiles(o.st.files) = UserFiles(files)


\* the batch an index belongs to
BatchOf(chunkIndex) == chunkIndex \div MAX_PARALLEL_CHUNKS

\* C22: the client has at most 4 chunk requests in flight at any time, and
\* when a chunk of some batch has been dispatched every chunk of every
\* earlier batch has been acknowledged.
C22_BatchesInTurn ==
    /\ Cardinality(client.pending) <= 4
    /\ \A j \in client.sent, m \in 0..(client.totalChunks - 1) :
          BatchOf(m) < BatchOf(j) => m \in client.acked

\* the second batch of a file of three batches is in flight, all four of it
C22_Witness ==
    /\ client.pc = "chunks"
    /\ client.totalChunks > 2 * MAX_PARALLEL_CHUNKS
    /\ client.pending = 4..7
    /\ client.acked = 0..3


\* C23: once a chunk request of the upload has failed, the client
\* dispatches no further chunk and issues no finalize; it issues cancel for
\* the session at most once, and when it has given up it has issued it
\* exactly once, has reported 'error' and has thrown the error, whether
\* that cancel succeeded or not.
C23_ChunkFailureAborts ==
    client.chunkFailed =>
        /\ client.sent = client.sentAtFailure
        /\ client.finalizes = 0
        /\ client.pc \in {"cancel", "failed"}
        /\ client.cancels = IF client.pc = "failed" THEN 1 ELSE 0
        /\ client.pc = "failed" => client.thrown /\ client.status = "error"

\* a chunk request of the first of two batches failed and the cancel that
\* followed failed too
C23_Witness ==
    /\ client.chunkFailed
    /\ client.pc = "failed"
    /\ client.cancelFailed
    /\ client.initOk
    /\ client.totalChunks > MAX_PARALLEL_CHUNKS
    /\ client.sentAtFailure = 0..3


\* C24: once the user has pressed cancel while chunks were being uploaded,
\* the client dispatches no chunk beyond the batch that was in flight and
\* the upload never reports 'completed'.
C24_CancelStopsUpload ==
    client.zone # "idle" =>
        /\ client.sent = client.sentAtClick
        /\ client.pc # "done"
        /\ client.status # "completed"


\* C30: the client dispatches no chunk when its init request was not
\* answered ok; it dispatches every index at most once, and all of them
\* exactly once before it issues finalize; it issues finalize only when
\* every index has been acknowledged; and it reports 'completed' only when
\* its finalize was answered ok.
C30_InitChunksFinalize ==
    /\ ~client.initOk => client.sent = {}
    /\ client.dispatches = Cardinality(client.sent)
    /\ client.sent \subseteq 0..(client.totalChunks - 1)
    /\ (client.pc = "finalize" \/ client.finalizes > 0) =>
          /\ client.sent = 0..(client.totalChunks - 1)
          /\ client.acked = 0..(client.totalChunks - 1)
    /\ client.status = "completed" => client.pc = "done" /\ client.finalizes = 1

\* C30 without the clause on a failed init: the order of chunks, finalize
\* and completion for an upload whose init was answered ok.
C30_OrderAfterInit ==
    /\ client.dispatches = Cardinality(client.sent)
    /\ client.sent \subseteq 0..(client.totalChunks - 1)
    /\ (client.pc = "finalize" \/ client.finalizes > 0) =>
          /\ client.sent = 0..(client.totalChunks - 1)
          /\ client.acked = 0..(client.totalChunks - 1)
    /\ client.status = "completed" => client.pc = "done" /\ client.finalizes = 1


RECURSIVE AfterSweeps(_, _)
\* the server k sweep periods on, swept in each of them, no request served
AfterSweeps(st, k) ==
    IF k = 0 THEN st ELSE Sweep(AfterSweeps(st, k - 1), st.now + k)

\* C25: a chunk request that is accepted sets the session's lastUpdate to
\* the present time, and the sweeps of the periods that follow, as long as
\* less than the staleness threshold has passed, leave the session in the
\* registry; a chunk request answered 400, 403 or 404 leaves every session
\* record, lastUpdate and received set included, as it is.
C25_AcceptedChunkRefreshes ==
    \A r \in AllChunkRequests :
        LET o == ChunkHandler(St, r.userId, r.sessionId, r.chunkIndex, r.chunk)
        IN  /\ o.status = 200 =>
                  /\ o.st.sessions[r.sessionId].lastUpdate = now
                  /\ \A k \in 0..(STALE_TIME - 1) :
                        r.sessionId \in DOMAIN AfterSweeps(o.st, k).sessions
            /\ o.status \in {400, 403, 404} => o.st.sessions = chunkSessions

\* a session last updated in an earlier period accepts a chunk now, and
\* would have been evicted by a sweep that this chunk makes it survive
C25_Witness ==
    \E s \in DOMAIN chunkSessions :
        /\ chunkSessions[s].lastUpdate < now
        /\ ChunkHandler(St, Owner(s), s, <<"0">>, <<"p">>).status = 200
        /\ \E k \in 1..(STALE_TIME - 1) :
              /\ s \notin DOMAIN AfterSweeps(St, k + STALE_TIME).sessions
              /\ s \in DOMAIN AfterSweeps(ChunkHandler(St, Owner(s), s, <<"0">>, <<"p">>).st,
                                          k).sessions


\* the finalize requests that have opened their destination file
Opened ==
    {id \in DOMAIN inflight :
        inflight[id].pc \in {"copy", "close", "rm", "cleanup", "done"}
            /\ inflight[id].status \in {0, 200}}

\* C26: when the finalizes of two complete sessions with the same fileName
\* and target directory overlap, they open different destination paths, and
\* each that succeeds leaves the full content of its session in its file.
C26_TwoDestinations ==
    /\ \A id \in Opened, other \in Opened :
          id # other => inflight[id].finalPath # inflight[other].finalPath
    /\ \A id \in DOMAIN inflight :
          (inflight[id].pc = "done" /\ inflight[id].status = 200) =>
              /\ inflight[id].finalPath \in DOMAIN files
              /\ files[inflight[id].finalPath] =
                    IF id = "finalize" THEN RaceContent ELSE OtherContent


\* C27: for every session in the registry and every index in its received
\* set, the chunk file of that index exists in the session's scratch
\* directory.
C27_ReceivedChunksOnDisk ==
    \A s \in DOMAIN chunkSessions :
        \A i \in chunkSessions[s].receivedChunks :
            ChunkPath(chunkSessions[s].tempDir, i) \in DOMAIN files


\* the fileName fields a finalize request may carry: the name recorded at
\* init, another name, and a name that leads out of the directory
FinalizeNames == {<<"d", ".", "t">>, <<"e">>, <<".", ".", "/", "d", ".", "t">>}

\* C28: whatever fileName the finalize request of the owner carries, a
\* finalize that succeeds stores the file directly in the session's target
\* directory, under the fileName recorded at init or, when that is taken,
\* under its first free " (n)" variant.
C28_StoredUnderSessionName ==
    \A s \in DOMAIN chunkSessions, fileName \in FinalizeNames :
        LET o == FinalizeHandler(St, Owner(s), s, fileName,
                                 chunkSessions[s].totalChunks, NoDiskFailure)
        IN  o.status = 200 =>
                /\ DirName(o.data.path) = chunkSessions[s].targetDir
                /\ o.data.path = ExpectedPath(files, dirs, chunkSessions[s].targetDir,
                                              chunkSessions[s].fileName)


\* C29: every session that is in the registry leaves it at some later time,
\* by finalize, by cancel or by the sweep, and is then without a scratch
\* directory; requests stop arriving at some time, the clock goes on and the
\* sweep timer keeps firing.
C29_SessionsLeave ==
    \A s \in SessionIds :
        (s \in DOMAIN chunkSessions)
            ~> (s \notin DOMAIN chunkSessions /\ ScratchOf(s) \notin dirs)

\* a session was initialized, no other request changed anything, and the
\* sweep has emptied the registry after the threshold had passed
C29_Witness ==
    /\ chunkSessions = <<>>
    /\ steps = 1
    /\ GetUserDirectory(<<"a">>) \in dirs
    /\ now > STALE_TIME
    /\ inflight["sweep"].pc = "waiting"

====
